---- MODULE Spec2Model ----
(***************************************************************************)
(* Model of semver::Version (src/version.hpp): the four construction       *)
(* paths, the text parser, the two serialisations and the comparison       *)
(* operators.  Strings are sequences of one-character strings.             *)
(***************************************************************************)
EXTENDS Integers, Sequences, FiniteSets, TLC

VARIABLES pc, via, ver, status, text, json, orig, lhs, rhs, third, cmp

vars == <<pc, via, ver, status, text, json, orig, lhs, rhs, third, cmp>>

(***************************************************************************)
(* Bounds of the model.                                                    *)
(***************************************************************************)
\* width, in bits, of the model's unsigned int
UIntBits == 4
\* longest list of tags handed to the explicit-fields constructor
MaxTags == 2
\* longest tail appended after the patch field of a text input
MaxTail == 3
\* longest array under the keys 'prerelease' and 'build' of a json input
MaxArr == 2
\* largest major number of the versions that are compared
MaxOrdMajor == 1

(***************************************************************************)
(* Characters: the execution character set is ASCII.                       *)
(***************************************************************************)
Ascii ==
  << " ", "!", "#", "$", "%", "&", "(", ")", "*", "+", ",", "-", ".", "/",
     "0", "1", "2", "3", "4", "5", "6", "7", "8", "9",
     ":", ";", "<", "=", ">", "?", "@",
     "A", "B", "C", "D", "E", "F", "G", "H", "I", "J", "K", "L", "M",
     "N", "O", "P", "Q", "R", "S", "T", "U", "V", "W", "X", "Y", "Z",
     "[", "]", "^", "_",
     "a", "b", "c", "d", "e", "f", "g", "h", "i", "j", "k", "l", "m",
     "n", "o", "p", "q", "r", "s", "t", "u", "v", "w", "x", "y", "z",
     "{", "|", "}", "~" >>

\* position of a character in the collating order of char_traits<char>
Code(ch) == CHOOSE i \in 1..Len(Ascii) : Ascii[i] = ch

DigitChars == <<"0", "1", "2", "3", "4", "5", "6", "7", "8", "9">>

Digits == {DigitChars[i] : i \in 1..10}

Letters ==
  {Ascii[i] : i \in Code("A")..Code("Z")} \cup {Ascii[i] : i \in Code("a")..Code("z")}

isdigit(ch) == ch \in Digits

isalnum(ch) == ch \in Digits \cup Letters

isspace(ch) == ch = " "

DigitVal(ch) == (CHOOSE i \in 1..10 : DigitChars[i] = ch) - 1

UIntMax == 2^UIntBits - 1

(***************************************************************************)
(* std::ostream << unsigned int: decimal digits, no padding, no sign.      *)
(***************************************************************************)
RECURSIVE Dec(_)
Dec(n) ==
  IF n < 10 THEN <<DigitChars[n + 1]>>
  ELSE Append(Dec(n \div 10), DigitChars[(n % 10) + 1])

(***************************************************************************)
(* std::istream >> unsigned int on the text s, next character at pos.      *)
(* The result is the stream after the read: pos, the eof and fail bits,    *)
(* and the value stored (old when the sentry fails before the conversion). *)
(***************************************************************************)
RECURSIVE SkipWs(_, _)
SkipWs(s, pos) ==
  IF pos <= Len(s) /\ isspace(s[pos]) THEN SkipWs(s, pos + 1) ELSE pos

\* accumulate the digits from pos on: <<next pos, value, digits seen, overflow>>
RECURSIVE Accumulate(_, _, _, _, _)
Accumulate(s, pos, value, seen, over) ==
  IF pos <= Len(s) /\ isdigit(s[pos])
  THEN LET next == value * 10 + DigitVal(s[pos])
       IN  IF over \/ next > UIntMax
           THEN Accumulate(s, pos + 1, 0, seen + 1, TRUE)
           ELSE Accumulate(s, pos + 1, next, seen + 1, FALSE)
  ELSE <<pos, value, seen, over>>

ExtractUInt(s, st, old) ==
  IF st.eof \/ st.fail
  THEN [pos |-> st.pos, eof |-> st.eof, fail |-> TRUE, value |-> old]
  ELSE LET p0 == SkipWs(s, st.pos)
       IN  IF p0 > Len(s)
           THEN [pos |-> p0, eof |-> TRUE, fail |-> TRUE, value |-> old]
           ELSE LET signed   == s[p0] \in {"+", "-"}
                    negative == s[p0] = "-"
                    p1       == IF signed THEN p0 + 1 ELSE p0
                    acc      == Accumulate(s, p1, 0, 0, FALSE)
                    atEnd    == acc[1] > Len(s)
                IN  IF acc[3] = 0
                    THEN [pos |-> acc[1], eof |-> atEnd, fail |-> TRUE, value |-> 0]
                    ELSE IF acc[4]
                    THEN [pos |-> acc[1], eof |-> atEnd, fail |-> TRUE, value |-> UIntMax]
                    ELSE [pos |-> acc[1], eof |-> atEnd, fail |-> FALSE,
                          value |-> IF negative THEN (UIntMax + 1 - acc[2]) % (UIntMax + 1)
                                    ELSE acc[2]]

\* the value istream::get and istream::peek return at the end of input
EndOfFile == "EOF"

\* a peek that looks at the buffer whatever the state of the stream
StreamPeekIgnoringState(s, st) ==
  IF st.pos > Len(s) THEN EndOfFile ELSE s[st.pos]

\* istream::peek: the next character, EndOfFile when the stream is not good
StreamPeek(s, st) ==
  IF st.eof \/ st.fail \/ st.pos > Len(s) THEN EndOfFile ELSE s[st.pos]

\* the stream after istream::get or istream::ignore
StreamAdvance(s, st) ==
  IF st.eof \/ st.fail THEN [st EXCEPT !.fail = TRUE]
  ELSE IF st.pos > Len(s) THEN [st EXCEPT !.eof = TRUE, !.fail = TRUE]
  ELSE [st EXCEPT !.pos = st.pos + 1]

(***************************************************************************)
(* Version: the fields and the default member initialisers.                *)
(***************************************************************************)
DefaultVersion ==
  [major |-> 0, minor |-> 0, patch |-> 0, prerelease |-> <<>>, build |-> <<>>]

Ok == "ok"
InvalidArgument == "std::invalid_argument"
ParseError == "std::runtime_error"

\* a constructor that returns, and one that throws
Built(v) == [status |-> Ok, ver |-> v]
Thrown(e) == [status |-> e, ver |-> DefaultVersion]

(***************************************************************************)
(* Version::parse                                                          *)
(***************************************************************************)
\* the loop with std::isalpha in the place of std::isalnum
RECURSIVE ScanPrereleaseAlpha(_, _, _)
ScanPrereleaseAlpha(s, pos, pre) ==
  IF pos <= Len(s) /\ s[pos] \in Letters
  THEN ScanPrereleaseAlpha(s, pos + 1,
         [pre EXCEPT ![Len(pre)] = Append(pre[Len(pre)], s[pos])])
  ELSE IF pos <= Len(s) /\ s[pos] = "."
  THEN ScanPrereleaseAlpha(s, pos + 1, Append(pre, <<>>))
  ELSE pre

\* the while (true) loop over the prerelease section, from pos on
RECURSIVE ScanPrerelease(_, _, _)
ScanPrerelease(s, pos, pre) ==
  IF pos <= Len(s) /\ isalnum(s[pos])
  THEN ScanPrerelease(s, pos + 1,
         [pre EXCEPT ![Len(pre)] = Append(pre[Len(pre)], s[pos])])
  ELSE IF pos <= Len(s) /\ s[pos] = "."
  THEN ScanPrerelease(s, pos + 1, Append(pre, <<>>))
  ELSE pre

\* a separator test that lets the end of input pass
UnexpectedCharacterButEof(s, st) == StreamPeek(s, st) \notin {".", EndOfFile}

\* stream.get() != '.': get returns what peek would, and then advances
UnexpectedCharacter(s, st) == StreamPeek(s, st) # "."

parse(s) ==
  LET st0 == [pos |-> 1, eof |-> FALSE, fail |-> FALSE]
      r1  == ExtractUInt(s, st0, DefaultVersion.major)
      s1  == [pos |-> r1.pos, eof |-> r1.eof, fail |-> r1.fail]
  IN  IF UnexpectedCharacter(s, s1)
      THEN Thrown(ParseError)
      ELSE
      LET r2 == ExtractUInt(s, StreamAdvance(s, s1), DefaultVersion.minor)
          s2 == [pos |-> r2.pos, eof |-> r2.eof, fail |-> r2.fail]
      IN  IF UnexpectedCharacter(s, s2)
          THEN Thrown(ParseError)
          ELSE
          LET r3 == ExtractUInt(s, StreamAdvance(s, s2), DefaultVersion.patch)
              s3 == [pos |-> r3.pos, eof |-> r3.eof, fail |-> r3.fail]
              pre == IF StreamPeek(s, s3) = "-"
                     THEN ScanPrerelease(s, s3.pos + 1, << <<>> >>)
                     ELSE <<>>
          IN  Built([major |-> r1.value, minor |-> r2.value, patch |-> r3.value,
                     prerelease |-> pre, build |-> <<>>])

(***************************************************************************)
(* Version::toString                                                       *)
(***************************************************************************)
\* the loop run up to tags.size()
RECURSIVE WriteLeadingAll(_, _, _)
WriteLeadingAll(out, tags, i) ==
  IF i < Len(tags)
  THEN WriteLeadingAll(out \o tags[i + 1] \o <<".">>, tags, i + 1)
  ELSE out

\* for (i = 0; i < tags.size() - 1; ++i) stream << tags[i] << '.'
RECURSIVE WriteLeading(_, _, _)
WriteLeading(out, tags, i) ==
  IF i < Len(tags) - 1
  THEN WriteLeading(out \o tags[i + 1] \o <<".">>, tags, i + 1)
  ELSE out

WriteTags(out, lead, tags) ==
  IF tags # <<>>
  THEN WriteLeading(out \o lead, tags, 0) \o tags[Len(tags)]
  ELSE out

\* the two section marks exchanged
toStringSwapped(v) ==
  LET numbers == Dec(v.major) \o <<".">> \o Dec(v.minor) \o <<".">> \o Dec(v.patch)
  IN  WriteTags(WriteTags(numbers, <<"+">>, v.prerelease), <<"-">>, v.build)

toString(v) ==
  LET numbers == Dec(v.major) \o <<".">> \o Dec(v.minor) \o <<".">> \o Dec(v.patch)
  IN  WriteTags(WriteTags(numbers, <<"-">>, v.prerelease), <<"+">>, v.build)

(***************************************************************************)
(* Version::Version(major, minor, patch, prerelease, build)                *)
(***************************************************************************)
HasEmptyElement(tags) == \E i \in 1..Len(tags) : tags[i] = <<>>

VersionFromFields(M, m, p, pre, bld) ==
  IF HasEmptyElement(pre) THEN Thrown(InvalidArgument)
  ELSE IF HasEmptyElement(bld) THEN Thrown(InvalidArgument)
  ELSE Built([major |-> M, minor |-> m, patch |-> p, prerelease |-> pre, build |-> bld])

(***************************************************************************)
(* json::Value, the structured value the class reads and writes: a tagged  *)
(* variant with the queries isObject, isArray, isString, isUnsignedInteger *)
(* and hasKey.                                                             *)
(***************************************************************************)
JNull == [kind |-> "null"]
JUInt(n) == [kind |-> "uint", n |-> n]
JString(s) == [kind |-> "string", s |-> s]
JArray(items) == [kind |-> "array", items |-> items]
JObject(members) == [kind |-> "object", members |-> members]

isObject(j) == j.kind = "object"
isArray(j) == j.kind = "array"
isString(j) == j.kind = "string"
isUnsignedInteger(j) == j.kind = "uint"
hasKey(j, key) == key \in DOMAIN j.members

\* static_cast<unsigned int>(value.asUnsignedInteger())
asUnsignedInt(j) == j.n % (UIntMax + 1)

\* Value::append: a null value becomes an array of one element
JAppend(j, element) ==
  IF j.kind = "array" THEN JArray(Append(j.items, element)) ELSE JArray(<<element>>)

(***************************************************************************)
(* Version::Version(const json::Value&)                                    *)
(***************************************************************************)
\* the loop without the test for an empty string
RECURSIVE ReadElementsUnchecked(_, _, _)
ReadElementsUnchecked(items, i, tags) ==
  IF i > Len(items) THEN [status |-> Ok, tags |-> tags]
  ELSE IF ~isString(items[i]) THEN [status |-> InvalidArgument, tags |-> tags]
  ELSE ReadElementsUnchecked(items, i + 1, Append(tags, items[i].s))

\* the loop over the elements of an array: the first offending element throws
RECURSIVE ReadElements(_, _, _)
ReadElements(items, i, tags) ==
  IF i > Len(items) THEN [status |-> Ok, tags |-> tags]
  ELSE IF ~isString(items[i]) THEN [status |-> InvalidArgument, tags |-> tags]
  ELSE IF items[i].s = <<>> THEN [status |-> InvalidArgument, tags |-> tags]
  ELSE ReadElements(items, i + 1, Append(tags, items[i].s))

ReadTags(j, key) ==
  IF hasKey(j, key)
  THEN IF ~isArray(j.members[key]) THEN [status |-> InvalidArgument, tags |-> <<>>]
       ELSE ReadElements(j.members[key].items, 1, <<>>)
  ELSE [status |-> Ok, tags |-> <<>>]

MissingUInt(j, key) == ~hasKey(j, key) \/ ~isUnsignedInteger(j.members[key])

VersionFromJson(j) ==
  IF ~isObject(j) THEN Thrown(InvalidArgument)
  ELSE IF MissingUInt(j, "major") THEN Thrown(InvalidArgument)
  ELSE IF MissingUInt(j, "minor") THEN Thrown(InvalidArgument)
  ELSE IF MissingUInt(j, "patch") THEN Thrown(InvalidArgument)
  ELSE LET pre == ReadTags(j, "prerelease")
       IN  IF pre.status # Ok THEN Thrown(InvalidArgument)
           ELSE LET bld == ReadTags(j, "build")
                IN  IF bld.status # Ok THEN Thrown(InvalidArgument)
                    ELSE Built([major |-> asUnsignedInt(j.members["major"]),
                                minor |-> asUnsignedInt(j.members["minor"]),
                                patch |-> asUnsignedInt(j.members["patch"]),
                                prerelease |-> pre.tags, build |-> bld.tags])

(***************************************************************************)
(* Version::toJson                                                         *)
(***************************************************************************)
\* for (auto& element : tags) json[key].append(element)
RECURSIVE AppendElements(_, _, _)
AppendElements(j, tags, i) ==
  IF i > Len(tags) THEN j
  ELSE AppendElements(JAppend(j, JString(tags[i])), tags, i + 1)

\* the key written whether or not there are tags
PutTagsAlways(members, key, tags) ==
  (key :> JArray([i \in 1..Len(tags) |-> JString(tags[i])])) @@ members

PutTags(members, key, tags) ==
  IF tags # <<>>
  THEN (key :> AppendElements(JNull, tags, 1)) @@ members
  ELSE members

toJson(v) ==
  LET numbers == [major |-> JUInt(v.major), minor |-> JUInt(v.minor),
                  patch |-> JUInt(v.patch)]
  IN  JObject(PutTags(PutTags(numbers, "prerelease", v.prerelease), "build", v.build))

(***************************************************************************)
(* operator== and operator<                                                *)
(***************************************************************************)
\* std::string operator<: by character code, a proper prefix is less
RECURSIVE StringLess(_, _, _)
StringLess(s, t, i) ==
  IF i > Len(t) THEN FALSE
  ELSE IF i > Len(s) THEN TRUE
  ELSE IF Code(s[i]) < Code(t[i]) THEN TRUE
  ELSE IF Code(t[i]) < Code(s[i]) THEN FALSE
  ELSE StringLess(s, t, i + 1)

\* std::vector<std::string> operator<: std::lexicographical_compare
RECURSIVE VectorLess(_, _, _)
VectorLess(p, q, i) ==
  IF i > Len(q) THEN FALSE
  ELSE IF i > Len(p) THEN TRUE
  ELSE IF StringLess(p[i], q[i], 1) THEN TRUE
  ELSE IF StringLess(q[i], p[i], 1) THEN FALSE
  ELSE VectorLess(p, q, i + 1)

Equal(l, r) ==
  (l.major = r.major) /\ (l.minor = r.minor) /\ (l.patch = r.patch)
    /\ (l.prerelease = r.prerelease)

\* the comparison without the 'greater' branches
LessFallThrough(l, r) ==
  IF l.major < r.major THEN TRUE
  ELSE IF l.minor < r.minor THEN TRUE
  ELSE IF l.patch < r.patch THEN TRUE
  ELSE VectorLess(l.prerelease, r.prerelease, 1)

Less(l, r) ==
  IF l.major < r.major THEN TRUE
  ELSE IF l.major > r.major THEN FALSE
  ELSE IF l.minor < r.minor THEN TRUE
  ELSE IF l.minor > r.minor THEN FALSE
  ELSE IF l.patch < r.patch THEN TRUE
  ELSE IF l.patch > r.patch THEN FALSE
  ELSE IF VectorLess(l.prerelease, r.prerelease, 1) THEN TRUE
  ELSE IF VectorLess(r.prerelease, l.prerelease, 1) THEN FALSE
  ELSE FALSE

NotEqual(l, r) == ~Equal(l, r)
LessEqual(l, r) == Equal(l, r) \/ Less(l, r)
Greater(l, r) == ~LessEqual(l, r)
GreaterEqual(l, r) == ~Less(l, r)

(***************************************************************************)
(* Inputs of the constructors.                                             *)
(***************************************************************************)
\* sequences over S of length at most n
SeqsUpTo(S, n) == UNION {[1..k -> S] : k \in 0..n}

\* an empty tag, alphanumeric tags, and a tag that ends in a separator
Tags == {<<>>, <<"a">>, <<"b", "1">>, <<"a", ".">>}

TagLists == SeqsUpTo(Tags, MaxTags)

MajorValues == {0, 10, UIntMax}

MinorValues == {0, 1}

\* a field of a text input: no digits, a number, a letter, a number out of range
NumberTokens == {<<>>, <<"1">>, <<"a">>, Append(Dec(UIntMax), "0")}

SeparatorTokens == {<<".">>, <<"-">>, <<>>}

Tails == SeqsUpTo({"-", ".", "a", "+"}, MaxTail)

ExampleTexts ==
  { <<"1", ".", "2", ".", "3">>,
    <<"1", ".", "2", ".", "3", "-", "a", "l", "p", "h", "a", ".", "1">>,
    <<"1", "-", "2", ".", "3">>,
    <<"1", ".", "2">>,
    <<".", "2", ".", "3">>,
    <<"1", ".", ".", "3">>,
    <<"a", ".", "2", ".", "3">>,
    <<"1", ".", "2", ".">>,
    <<"1", ".", "2", ".", "3", "-">>,
    <<"1", ".", "2", ".", "3", "-", "a", ".", ".", "b">>,
    <<" ", "1", ".", " ", "2", ".", "3">>,
    <<"-", "1", ".", "+", "2", ".", "3">>,
    <<"1", ".", "2", ".", "-", "a">>,
    <<"0", "1", ".", "2", ".", "3", "-", "R", "C", "1", "+", "b">> }

TextInputs ==
  { n1 \o s1 \o n2 \o s2 \o n3 \o t :
      n1 \in NumberTokens, s1 \in SeparatorTokens, n2 \in NumberTokens,
      s2 \in SeparatorTokens, n3 \in NumberTokens, t \in Tails }
    \cup ExampleTexts

\* the value under 'major', 'minor' or 'patch'; Absent when the key is missing
Absent == [kind |-> "absent"]

JsonNumbers == {Absent, JUInt(1), JUInt(UIntMax + 3), JString(<<"1">>)}

JsonElements == {JString(<<"a">>), JString(<<>>), JUInt(1)}

JsonTags ==
  {Absent, JString(<<"a">>)} \cup {JArray(items) : items \in SeqsUpTo(JsonElements, MaxArr)}

Keys == {"major", "minor", "patch", "prerelease", "build"}

\* the object that holds the chosen values, without the keys chosen Absent
MakeObject(choice) ==
  JObject([key \in {k \in Keys : choice[k] # Absent} |-> choice[key]])

JsonInputs ==
  { MakeObject([major |-> mj, minor |-> mn, patch |-> pt, prerelease |-> pr, build |-> bd]) :
      mj \in JsonNumbers, mn \in JsonNumbers, pt \in JsonNumbers,
      pr \in JsonTags, bd \in JsonTags }
    \cup {JNull, JUInt(1), JString(<<"1", ".", "2", ".", "3">>), JArray(<<JUInt(1)>>)}

\* the versions that are compared: each one the explicit-fields constructor builds
OrdVersions ==
  [ major : 0..MaxOrdMajor, minor : MinorValues, patch : MinorValues,
    prerelease : {<<>>, << <<"a">> >>, << <<"a">>, <<"b">> >>, << <<"b">> >>},
    build : {<<>>, << <<"x">> >>} ]

(***************************************************************************)
(* The state: pc is the step reached, via the constructor that built ver,  *)
(* status what that constructor threw, text and json the last text and     *)
(* structured value read or written, orig the version that was serialised, *)
(* lhs, rhs, third the operands of the comparisons and cmp their results.  *)
(***************************************************************************)
NoCmp == [done |-> FALSE]

Init ==
  /\ pc = "start"
  /\ via = "none"
  /\ ver = DefaultVersion
  /\ status = Ok
  /\ text = <<>>
  /\ json = JNull
  /\ orig = DefaultVersion
  /\ lhs = DefaultVersion
  /\ rhs = DefaultVersion
  /\ third = DefaultVersion
  /\ cmp = NoCmp

\* the object of a constructor call: ver and status
Construct(result, path) ==
  /\ ver' = result.ver
  /\ status' = result.status
  /\ via' = path
  /\ pc' = IF result.status = Ok THEN "constructed" ELSE "failed"
  /\ UNCHANGED <<orig, lhs, rhs, third, cmp>>

ConstructDefault ==
  /\ pc = "start"
  /\ Construct(Built(DefaultVersion), "default")
  /\ UNCHANGED <<text, json>>

ConstructFields ==
  /\ pc = "start"
  /\ \E M \in MajorValues, m \in MinorValues, p \in MinorValues,
        pre \in TagLists, bld \in TagLists :
       Construct(VersionFromFields(M, m, p, pre, bld), "fields")
  /\ UNCHANGED <<text, json>>

ConstructText ==
  /\ pc = "start"
  /\ \E s \in TextInputs :
       /\ Construct(parse(s), "text")
       /\ text' = s
  /\ UNCHANGED json

ConstructJson ==
  /\ pc = "start"
  /\ \E j \in JsonInputs :
       /\ Construct(VersionFromJson(j), "json")
       /\ json' = j
  /\ UNCHANGED text

CallToString ==
  /\ pc = "constructed"
  /\ text' = toString(ver)
  /\ orig' = ver
  /\ pc' = "printed"
  /\ UNCHANGED <<via, ver, status, json, lhs, rhs, third, cmp>>

CallToJson ==
  /\ pc = "constructed"
  /\ json' = toJson(ver)
  /\ orig' = ver
  /\ pc' = "exported"
  /\ UNCHANGED <<via, ver, status, text, lhs, rhs, third, cmp>>

\* Version(v.toString())
Reparse ==
  /\ pc = "printed"
  /\ ver' = parse(text).ver
  /\ status' = parse(text).status
  /\ pc' = "reparsed"
  /\ UNCHANGED <<via, text, json, orig, lhs, rhs, third, cmp>>

\* Version(v.toJson())
Reimport ==
  /\ pc = "exported"
  /\ ver' = VersionFromJson(json).ver
  /\ status' = VersionFromJson(json).status
  /\ pc' = "reimported"
  /\ UNCHANGED <<via, text, json, orig, lhs, rhs, third, cmp>>

Next ==
  \/ ConstructDefault
  \/ ConstructFields
  \/ ConstructText
  \/ ConstructJson
  \/ CallToString
  \/ CallToJson
  \/ Reparse
  \/ Reimport

Spec == Init /\ [][Next]_vars

(***************************************************************************)
(* The comparisons, on three versions drawn from OrdVersions.              *)
(***************************************************************************)
InitOrder ==
  /\ pc = "operands"
  /\ via = "fields"
  /\ ver = DefaultVersion
  /\ status = Ok
  /\ text = <<>>
  /\ json = JNull
  /\ orig = DefaultVersion
  /\ lhs \in OrdVersions
  /\ rhs \in OrdVersions
  /\ third \in OrdVersions
  /\ cmp = NoCmp

Compare ==
  /\ pc = "operands"
  /\ cmp' = [done |-> TRUE,
             ll |-> Less(lhs, lhs),
             lr |-> Less(lhs, rhs),
             rl |-> Less(rhs, lhs),
             rt |-> Less(rhs, third),
             lt |-> Less(lhs, third),
             eq |-> Equal(lhs, rhs),
             ne |-> NotEqual(lhs, rhs),
             le |-> LessEqual(lhs, rhs),
             gt |-> Greater(lhs, rhs),
             ge |-> GreaterEqual(lhs, rhs)]
  /\ pc' = "compared"
  /\ UNCHANGED <<via, ver, status, text, json, orig, lhs, rhs, third>>

NextOrder == Compare

SpecOrder == InitOrder /\ [][NextOrder]_vars

(***************************************************************************)
(* Vocabulary of the properties.                                           *)
(***************************************************************************)
NonEmptyTags(v) == ~HasEmptyElement(v.prerelease) /\ ~HasEmptyElement(v.build)

AllAlnum(tags) ==
  \A i \in 1..Len(tags) : tags[i] # <<>> /\ \A k \in 1..Len(tags[i]) : isalnum(tags[i][k])

SameButBuild(v, w) ==
  /\ v.major = w.major
  /\ v.minor = w.minor
  /\ v.patch = w.patch
  /\ v.prerelease = w.prerelease

Constructed == pc \in {"constructed", "failed"}

\* the tags joined with '.', for a list that is not empty
RECURSIVE Join(_)
Join(tags) ==
  IF Len(tags) = 1 THEN tags[1] ELSE tags[1] \o <<".">> \o Join(Tail(tags))

Section(mark, tags) == IF tags = <<>> THEN <<>> ELSE mark \o Join(tags)

Canonical(v) ==
  Dec(v.major) \o <<".">> \o Dec(v.minor) \o <<".">> \o Dec(v.patch)
    \o Section(<<"-">>, v.prerelease) \o Section(<<"+">>, v.build)

RECURSIVE TotalLen(_)
TotalLen(tags) == IF tags = <<>> THEN 0 ELSE Len(tags[1]) + TotalLen(Tail(tags))

\* the length of a section without its mark: the tags and a dot between two
SectionLen(tags) == TotalLen(tags) + Len(tags) - 1

NumbersLen(v) == Len(Dec(v.major)) + Len(Dec(v.minor)) + Len(Dec(v.patch)) + 2

\* what t holds after the '-', up to the '+' or the end
PrereleaseSection(v, t) ==
  SubSeq(t, NumbersLen(v) + 2, NumbersLen(v) + 1 + SectionLen(v.prerelease))

\* what t holds after the '+'
BuildSection(v, t) ==
  LET before == NumbersLen(v)
                  + (IF v.prerelease = <<>> THEN 0 ELSE 1 + SectionLen(v.prerelease))
  IN  SubSeq(t, before + 2, before + 1 + SectionLen(v.build))

DotCount(t) == Cardinality({i \in 1..Len(t) : t[i] = "."})

Marks == {".", "-", "+"}

EndsInMark(t) == t # <<>> /\ t[Len(t)] \in Marks

NoDots(tags) == \A i \in 1..Len(tags) : DotCount(tags[i]) = 0

\* the last tag that toString writes
FinalTag(v) ==
  IF v.build # <<>> THEN v.build[Len(v.build)]
  ELSE IF v.prerelease # <<>> THEN v.prerelease[Len(v.prerelease)]
  ELSE <<"0">>

\* the end of the run of digits that starts at i
DigitRunEnd(t, i) ==
  CHOOSE j \in i..(Len(t) + 1) :
    /\ j > Len(t) \/ ~isdigit(t[j])
    /\ \A k \in i..(j - 1) : isdigit(t[k])

NotDotAt(t, j) == j > Len(t) \/ t[j] # "."

\* t starts with a number and what follows it is not '.'
MajorNotFollowedByDot(t) ==
  LET e == DigitRunEnd(t, 1) IN e > 1 /\ NotDotAt(t, e)

\* t starts with a number, '.', a number, and what follows is not '.'
MinorNotFollowedByDot(t) ==
  LET e1 == DigitRunEnd(t, 1)
  IN  /\ e1 > 1
      /\ ~NotDotAt(t, e1)
      /\ LET e2 == DigitRunEnd(t, e1 + 1) IN e2 > e1 + 1 /\ NotDotAt(t, e2)

\* the first '.' of t at or after i, 0 when there is none
DotFrom(t, i) ==
  IF \E j \in i..Len(t) : t[j] = "."
  THEN CHOOSE j \in i..Len(t) : t[j] = "." /\ \A k \in i..(j - 1) : t[k] # "."
  ELSE 0

FirstDot(t) == DotFrom(t, 1)

SecondDot(t) == IF FirstDot(t) = 0 THEN 0 ELSE DotFrom(t, FirstDot(t) + 1)

HasSeparators(t) == SecondDot(t) # 0

HasDigit(t, from, to) == \E k \in from..to : isdigit(t[k])

MajorField(t) == SubSeq(t, 1, FirstDot(t) - 1)

MinorField(t) == SubSeq(t, FirstDot(t) + 1, SecondDot(t) - 1)

MajorWithoutDigits(t) == ~HasDigit(t, 1, FirstDot(t) - 1)

MinorWithoutDigits(t) == ~HasDigit(t, FirstDot(t) + 1, SecondDot(t) - 1)

\* nothing after the second '.' is a digit, or what follows it cannot start a number
PatchWithoutDigits(t) ==
  \/ ~HasDigit(t, SecondDot(t) + 1, Len(t))
  \/ t[SecondDot(t) + 1] \notin Digits \cup {"+", "-", " "}

\* the decimal form of an unsigned int
IsNumber(field) == \E n \in 0..UIntMax : field = Dec(n)

NumberKeys == {"major", "minor", "patch"}

TagKeys == {"prerelease", "build"}

BadElement(e) == e.kind # "string" \/ e.s = <<>>

BadTags(j, key) ==
  /\ key \in DOMAIN j.members
  /\ \/ j.members[key].kind # "array"
     \/ \E i \in 1..Len(j.members[key].items) : BadElement(j.members[key].items[i])

BadNumber(j, key) == key \notin DOMAIN j.members \/ j.members[key].kind # "uint"

BadJson(j) ==
  \/ j.kind # "object"
  \/ \E key \in NumberKeys : BadNumber(j, key)
  \/ \E key \in TagKeys : BadTags(j, key)

(***************************************************************************)
(* The properties.                                                         *)
(***************************************************************************)

\* C1: a version built by the explicit-fields constructor with alphanumeric
\* prerelease tags, whatever its build tags, is read back from its toString()
\* text without error and with the same major, minor, patch and prerelease.
TextRoundTrip ==
  (pc = "reparsed" /\ via = "fields" /\ AllAlnum(orig.prerelease)) =>
    /\ status = Ok
    /\ ver.major = orig.major
    /\ ver.minor = orig.minor
    /\ ver.patch = orig.patch
    /\ ver.prerelease = orig.prerelease

TextRoundTripWitness ==
  /\ pc = "reparsed"
  /\ via = "fields"
  /\ Len(orig.prerelease) = 2
  /\ AllAlnum(orig.prerelease)
  /\ orig.build # <<>>
  /\ orig.major = 10
  /\ status = Ok
  /\ ver.prerelease = orig.prerelease

\* C2: a version without empty elements is read back from its toJson() value
\* without error and with the same five fields, and the value holds the key
\* 'prerelease' (resp. 'build') exactly when that sequence is not empty, never
\* with an empty array under it.
JsonRoundTrip ==
  (pc \in {"exported", "reimported"} /\ NonEmptyTags(orig)) =>
    /\ json.kind = "object"
    /\ \A key \in TagKeys :
         /\ key \in DOMAIN json.members <=> orig[key] # <<>>
         /\ key \in DOMAIN json.members =>
              json.members[key].kind = "array" /\ json.members[key].items # <<>>
    /\ pc = "reimported" => status = Ok /\ ver = orig

JsonRoundTripWitness ==
  /\ pc = "reimported"
  /\ via = "fields"
  /\ orig.prerelease # <<>>
  /\ orig.build = <<>>
  /\ "prerelease" \in DOMAIN json.members
  /\ "build" \notin DOMAIN json.members
  /\ status = Ok
  /\ ver = orig

\* C3: operator< is a strict total order on (major, minor, patch, prerelease)
\* in that priority, and build takes no part: it is irreflexive and transitive,
\* exactly one of a < b, a == b, b < a holds, and two versions that differ only
\* in build are equal and neither is less.
StrictTotalOrder ==
  cmp.done =>
    /\ ~cmp.ll
    /\ (cmp.lr /\ cmp.rt) => cmp.lt
    /\ Cardinality({x \in {"lr", "eq", "rl"} : cmp[x]}) = 1
    /\ SameButBuild(lhs, rhs) => cmp.eq /\ ~cmp.lr /\ ~cmp.rl
    /\ lhs.major < rhs.major => cmp.lr
    /\ (lhs.major = rhs.major /\ lhs.minor < rhs.minor) => cmp.lr
    /\ (lhs.major = rhs.major /\ lhs.minor = rhs.minor /\ lhs.patch < rhs.patch) => cmp.lr
    /\ cmp.eq <=> SameButBuild(lhs, rhs)

StrictTotalOrderWitness ==
  /\ cmp.done
  /\ cmp.lr
  /\ cmp.rt
  /\ cmp.lt
  /\ lhs.major = rhs.major
  /\ lhs.minor < rhs.minor
  /\ rhs.prerelease # third.prerelease
  /\ SameButBuild(rhs, [third EXCEPT !.prerelease = rhs.prerelease])
  /\ lhs.build # rhs.build

\* C4: a version with prerelease tags is less than the version with the same
\* major, minor and patch and no prerelease tag, and not the other way round.
PrereleaseBeforeRelease ==
  ( /\ cmp.done
    /\ lhs.major = rhs.major
    /\ lhs.minor = rhs.minor
    /\ lhs.patch = rhs.patch
    /\ lhs.prerelease # <<>>
    /\ rhs.prerelease = <<>> ) => cmp.lr /\ ~cmp.rl

\* C5: whatever the construction path, a version whose construction raised no
\* error has no empty element in prerelease and none in build.
NonEmptyElements ==
  (pc # "start" /\ status = Ok) => NonEmptyTags(ver)

\* C6: construction from a structured value raises InvalidArgument exactly
\* when the value is not an object, or major, minor or patch is missing or not
\* an unsigned integer, or prerelease or build is there and is not an array of
\* non-empty strings; otherwise it succeeds, and a missing key leaves its
\* sequence empty.
JsonFailsExactlyWhen ==
  (Constructed /\ via = "json") =>
    /\ status = InvalidArgument <=> BadJson(json)
    /\ ~BadJson(json) =>
         /\ status = Ok
         /\ \A key \in TagKeys : key \notin DOMAIN json.members => ver[key] = <<>>

JsonFailsExactlyWhenWitness ==
  /\ pc = "failed"
  /\ via = "json"
  /\ status = InvalidArgument
  /\ json.kind = "object"
  /\ \A key \in NumberKeys : ~BadNumber(json, key)
  /\ "build" \notin DOMAIN json.members
  /\ "prerelease" \in DOMAIN json.members
  /\ json.members["prerelease"] = JArray(<<JString(<<"a">>), JString(<<>>)>>)

\* C7: text parsing raises ParseError whenever what follows the major number,
\* or what follows the minor number, is not '.', the end of input included;
\* "1-2.3" and "1.2" fail, "1.2.3" gives (1,2,3,{},{}) and "1.2.3-alpha.1"
\* gives (1,2,3,{"alpha","1"},{}).
SeparatorErrors ==
  (Constructed /\ via = "text") =>
    /\ (MajorNotFollowedByDot(text) \/ MinorNotFollowedByDot(text)) => status = ParseError
    /\ text \in {<<"1", "-", "2", ".", "3">>, <<"1", ".", "2">>} => status = ParseError
    /\ text = <<"1", ".", "2", ".", "3">> =>
         /\ status = Ok
         /\ ver = [major |-> 1, minor |-> 2, patch |-> 3, prerelease |-> <<>>, build |-> <<>>]
    /\ text = <<"1", ".", "2", ".", "3", "-", "a", "l", "p", "h", "a", ".", "1">> =>
         /\ status = Ok
         /\ ver = [major |-> 1, minor |-> 2, patch |-> 3,
                   prerelease |-> << <<"a", "l", "p", "h", "a">>, <<"1">> >>, build |-> <<>>]

SeparatorErrorsWitness ==
  /\ pc = "failed"
  /\ via = "text"
  /\ MinorNotFollowedByDot(text)
  /\ DigitRunEnd(text, 3) > Len(text)
  /\ status = ParseError

\* C8 (as stated): toString() is MAJOR.MINOR.PATCH, then '-' and the prerelease
\* tags joined with '.' iff there are any, then '+' and the build tags joined
\* with '.' iff there are any; with non-empty tags it never ends in '.', '-' or
\* '+' and each section holds one dot fewer than it has tags.
ToStringFormatAnyTags ==
  (pc = "printed" /\ NonEmptyTags(orig)) =>
    /\ text = Canonical(orig)
    /\ ~EndsInMark(text)
    /\ orig.prerelease # <<>> =>
         DotCount(PrereleaseSection(orig, text)) = Len(orig.prerelease) - 1
    /\ orig.build # <<>> =>
         DotCount(BuildSection(orig, text)) = Len(orig.build) - 1

\* C8 (amended): the text is exactly of that form; with non-empty tags it does
\* not end in '.', '-' or '+' unless the last tag written does, and a section
\* whose tags hold no dot holds one dot fewer than it has tags.
ToStringFormat ==
  pc = "printed" =>
    /\ text = Canonical(orig)
    /\ (NonEmptyTags(orig) /\ ~EndsInMark(FinalTag(orig))) => ~EndsInMark(text)
    /\ (NonEmptyTags(orig) /\ orig.prerelease # <<>> /\ NoDots(orig.prerelease)) =>
         DotCount(PrereleaseSection(orig, text)) = Len(orig.prerelease) - 1
    /\ (NonEmptyTags(orig) /\ orig.build # <<>> /\ NoDots(orig.build)) =>
         DotCount(BuildSection(orig, text)) = Len(orig.build) - 1

ToStringFormatWitness ==
  /\ pc = "printed"
  /\ via = "fields"
  /\ Len(orig.prerelease) = 1
  /\ Len(orig.build) = 2
  /\ NoDots(orig.prerelease)
  /\ NoDots(orig.build)
  /\ DotCount(PrereleaseSection(orig, text)) = 0
  /\ DotCount(BuildSection(orig, text)) = 1
  /\ ~EndsInMark(text)

\* C9 (as stated): an input with both '.' separators whose major, minor or
\* patch field has no digits never raises ParseError.
MalformedNumberSilent ==
  ( /\ Constructed
    /\ via = "text"
    /\ HasSeparators(text)
    /\ MajorWithoutDigits(text) \/ MinorWithoutDigits(text) \/ PatchWithoutDigits(text) )
  => status # ParseError

\* C9 (amended): only a patch field without digits is silent: when major and
\* minor are unsigned numbers, each followed by '.', and the patch field has no
\* digits, construction raises nothing and leaves patch 0 and prerelease empty;
\* when the separators are there and the major or the minor field has no
\* digits, construction raises ParseError.
MalformedPatchSilent ==
  (Constructed /\ via = "text" /\ HasSeparators(text)) =>
    /\ ( /\ IsNumber(MajorField(text))
         /\ IsNumber(MinorField(text))
         /\ PatchWithoutDigits(text) ) =>
           status = Ok /\ ver.patch = 0 /\ ver.prerelease = <<>>
    /\ (MajorWithoutDigits(text) \/ MinorWithoutDigits(text)) => status = ParseError

MalformedPatchSilentWitness ==
  /\ pc = "constructed"
  /\ via = "text"
  /\ HasSeparators(text)
  /\ IsNumber(MajorField(text))
  /\ IsNumber(MinorField(text))
  /\ SecondDot(text) < Len(text)
  /\ PatchWithoutDigits(text)
  /\ status = Ok
  /\ ver.patch = 0

\* C10: a version the text parser produced is read back from its toString()
\* text without error, with the same major, minor, patch and prerelease, the
\* empty tags of a dangling '-' or of consecutive dots included, and with an
\* empty build.
ReparseStable ==
  (pc = "reparsed" /\ via = "text") =>
    /\ status = Ok
    /\ ver.major = orig.major
    /\ ver.minor = orig.minor
    /\ ver.patch = orig.patch
    /\ ver.prerelease = orig.prerelease
    /\ ver.build = <<>>

ReparseStableWitness ==
  /\ pc = "reparsed"
  /\ via = "text"
  /\ Len(orig.prerelease) = 3
  /\ orig.prerelease[2] = <<>>
  /\ orig.prerelease[3] # <<>>
  /\ status = Ok
  /\ ver.prerelease = orig.prerelease

====
